---------------------------- MODULE Spec2Model ----------------------------
(* Cursor / selection movement of xi-editor's core-lib (movement.rs).       *)
(*                                                                          *)
(* selection_movement is a pure function of (movement, selection, view,     *)
(* text, modify).  The model keeps a document, the selection the editor     *)
(* currently holds, the record of the call in progress and the selection    *)
(* that call returned.  A call (Move) reads the current selection and       *)
(* leaves it untouched; the editor then installs the returned selection     *)
(* (Install).  Rope, View, Cursor<LinesMetric>, WordCursor and the          *)
(* Selection container live outside movement.rs and are modelled from       *)
(* their contracts.                                                         *)
EXTENDS Integers, Sequences, FiniteSets, TLC

VARIABLES text, sel, call, result, hist

vars == <<text, sel, call, result, hist>>

-----------------------------------------------------------------------------
(* Bounds of the model *)

\* longest document, in code units
MaxLen == 3

\* width of usize / isize in bits (the program runs with 64; the line
\* arithmetic is checked at this width, every extreme value included)
WordBits == 4

-----------------------------------------------------------------------------
(* Machine integers *)

RECURSIVE Pow2(_)
Pow2(n) == IF n = 0 THEN 1 ELSE 2 * Pow2(n - 1)

UsizeMax == Pow2(WordBits) - 1
IsizeMax == Pow2(WordBits - 1) - 1
IsizeMin == 0 - Pow2(WordBits - 1)

Min2(a, b) == IF a < b THEN a ELSE b
Max2(a, b) == IF a > b THEN a ELSE b

\* `x as isize` for a usize x
as_isize(x) == IF x > IsizeMax THEN x - Pow2(WordBits) ELSE x

\* `x as usize` for an isize x
as_usize(x) == IF x < 0 THEN x + Pow2(WordBits) ELSE x

\* the isize the hardware keeps of a mathematical result
wrap_isize(x) ==
    IF x > IsizeMax THEN x - Pow2(WordBits)
    ELSE IF x < IsizeMin THEN x + Pow2(WordBits)
    ELSE x

\* the usize the hardware keeps of a mathematical result
wrap_usize(x) == x % Pow2(WordBits)

isize_fits(x) == x >= IsizeMin /\ x <= IsizeMax
usize_fits(x) == x >= 0 /\ x <= UsizeMax

\* usize::saturating_add
saturating_add(a, b) == Min2(a + b, UsizeMax)

-----------------------------------------------------------------------------
(* Option<T>: None is the empty sequence, Some(v) the one-element one *)

None == <<>>
Some(v) == <<v>>
is_some(o) == Len(o) = 1
unwrap(o) == o[1]
unwrap_or(o, d) == IF is_some(o) THEN o[1] ELSE d

-----------------------------------------------------------------------------
(* Rope: the document is a sequence of code units.  "a" is a base letter,   *)
(* "m" a combining mark that joins the grapheme cluster of the unit before  *)
(* it, "\n" the line terminator.  Offsets run from 0 to Len(t); offset o    *)
(* lies between t[o] and t[o+1].                                            *)

Alphabet == {"a", "m", "\n"}

Texts == UNION {[1..n -> Alphabet] : n \in 0..MaxLen}

text_len(t) == Len(t)

Offsets(t) == 0..Len(t)

\* o is a grapheme cluster boundary of t
is_grapheme_boundary(t, o) ==
    \/ o = 0
    \/ o = Len(t)
    \/ /\ o > 0 /\ o < Len(t)
       /\ ~(t[o + 1] = "m" /\ t[o] # "\n")

\* Rope::prev_grapheme_offset: the nearest boundary strictly before o
prev_grapheme_offset(t, o) ==
    LET B == {b \in 0..Len(t) : b < o /\ is_grapheme_boundary(t, b)}
    IN IF B = {} THEN None ELSE Some(CHOOSE b \in B : \A c \in B : c <= b)

\* Rope::next_grapheme_offset: the nearest boundary strictly after o
next_grapheme_offset(t, o) ==
    LET B == {b \in 0..Len(t) : b > o /\ is_grapheme_boundary(t, b)}
    IN IF B = {} THEN None ELSE Some(CHOOSE b \in B : \A c \in B : b <= c)

\* LinesMetric::is_boundary: o immediately follows a line terminator
is_line_boundary(t, o) == o >= 1 /\ o <= Len(t) /\ t[o] = "\n"

\* Rope::measure::<LinesMetric>: the number of line terminators
measure_lines(t) == Cardinality({i \in 1..Len(t) : t[i] = "\n"})

\* Rope::line_of_offset: the number of line terminators before o
rope_line_of_offset(t, o) == Cardinality({i \in 1..o : t[i] = "\n"})

\* Rope::offset_of_line: the offset just after the line-th terminator
rope_offset_of_line(t, line) ==
    IF line = 0 THEN 0
    ELSE IF line > measure_lines(t) THEN Len(t)
    ELSE CHOOSE o \in 1..Len(t) :
            is_line_boundary(t, o) /\ rope_line_of_offset(t, o) = line

\* Cursor::prev::<LinesMetric>: the line boundary strictly before pos
cursor_prev_line(t, pos) ==
    LET B == {b \in 1..Len(t) : b < pos /\ is_line_boundary(t, b)}
    IN IF B = {} THEN None ELSE Some(CHOOSE b \in B : \A c \in B : c <= b)

\* Cursor::next::<LinesMetric>: moves the cursor to the line boundary
\* strictly after pos and returns it; with none left it moves to the end of
\* the rope and returns that instead, and at the end of the rope it returns
\* None.  ret is the returned option, pos the cursor's position afterwards.
cursor_next_line(t, pos) ==
    LET B == {b \in 1..Len(t) : b > pos /\ is_line_boundary(t, b)}
    IN IF B # {} THEN
           LET b == CHOOSE b \in B : \A c \in B : b <= c
           IN [ret |-> Some(b), pos |-> b]
       ELSE IF pos < Len(t) THEN [ret |-> Some(Len(t)), pos |-> Len(t)]
       ELSE [ret |-> None, pos |-> pos]

-----------------------------------------------------------------------------
(* WordCursor: a word boundary is the start or the end of the document or   *)
(* a grapheme boundary between a letter cluster and a line terminator.      *)

is_word_char(c) == c \in {"a", "m"}

is_word_boundary(t, o) ==
    \/ o = 0
    \/ o = Len(t)
    \/ /\ o > 0 /\ o < Len(t)
       /\ is_grapheme_boundary(t, o)
       /\ is_word_char(t[o]) # is_word_char(t[o + 1])

\* WordCursor::prev_boundary
prev_boundary(t, o) ==
    LET B == {b \in 0..Len(t) : b < o /\ is_word_boundary(t, b)}
    IN IF B = {} THEN None ELSE Some(CHOOSE b \in B : \A c \in B : c <= b)

\* WordCursor::next_boundary
next_boundary(t, o) ==
    LET B == {b \in 0..Len(t) : b > o /\ is_word_boundary(t, b)}
    IN IF B = {} THEN None ELSE Some(CHOOSE b \in B : \A c \in B : b <= c)

-----------------------------------------------------------------------------
(* View without soft line breaks: visible lines are the rope's lines and    *)
(* the column of an offset is its distance from the start of its line.      *)

\* View::line_of_offset
line_of_offset(t, o) == rope_line_of_offset(t, o)

\* View::offset_of_line (out-of-range lines give the document's end)
offset_of_line(t, line) ==
    rope_offset_of_line(t, Min2(line, measure_lines(t) + 1))

\* View::offset_to_line_col
offset_to_line_col(t, o) ==
    LET line == line_of_offset(t, o)
    IN <<line, o - offset_of_line(t, line)>>

\* View::line_col_to_offset: the offset of column col on line `line`,
\* snapped to a grapheme boundary and clamped to the end of that line
line_col_to_offset(t, line, col) ==
    LET o0 == saturating_add(offset_of_line(t, line), col)
        atEnd == o0 >= Len(t)
        o1 == IF atEnd THEN Len(t)
              ELSE unwrap_or(prev_grapheme_offset(t, o0 + 1), 0)
        next_line_offset == offset_of_line(t, line + 1)
    IN IF atEnd /\ line_of_offset(t, Len(t)) <= line THEN Len(t)
       ELSE IF o1 >= next_line_offset
            THEN unwrap_or(prev_grapheme_offset(t, next_line_offset), o1)
            ELSE o1

-----------------------------------------------------------------------------
(* SelRegion and Selection *)

Affinities == {"Downstream", "Upstream"}

\* Affinity::default()
affinity_default == "Downstream"

SelRegion(start, end, horiz, affinity) ==
    [start |-> start, end |-> end, horiz |-> horiz, affinity |-> affinity]

is_caret(r) == r.start = r.end
region_min(r) == Min2(r.start, r.end)
region_max(r) == Max2(r.start, r.end)

\* Selection::new()
selection_new == <<>>

\* Selection::add_region.  Selections of this model hold at most one
\* region, so the container's merge policy is never exercised: the region
\* handed over is the region kept.
add_region(s, region) == Append(s, region)

-----------------------------------------------------------------------------
(* movement.rs *)

Movements ==
    {"Left", "Right", "LeftWord", "RightWord", "LeftOfLine", "RightOfLine",
     "Up", "Down", "UpPage", "DownPage", "StartOfParagraph",
     "EndOfParagraph", "StartOfDocument", "EndOfDocument"}

\* A movement's outcome is the pair (offset, horiz) of the source, with
\* ovf naming the first place, if any, where an arithmetic step left its
\* integer type (a debug build panics there, a release build carries on
\* with the wrapped value).
Outcome(offset, horiz, ovf) ==
    [offset |-> offset, horiz |-> horiz, ovf |-> ovf]

calc_horiz(t, offset) ==
    Outcome(offset, Some(offset_to_line_col(t, offset)[2]), "none")

\* vm_active taking the trailing edge of the selection instead of the
\* leading one
vm_active_trailing(r, line_delta, modify) ==
    IF modify THEN r.end
    ELSE IF line_delta < 0 THEN region_max(r)
    ELSE region_min(r)

\* the active point of the selection
vm_active(r, line_delta, modify) ==
    IF modify THEN r.end
    ELSE IF line_delta < 0 THEN region_min(r)
    ELSE region_max(r)

vm_col(r, t, active) ==
    IF is_some(r.horiz) THEN unwrap(r.horiz)
    ELSE offset_to_line_col(t, active)[2]

\* vm_above_first comparing with >= on the wrong side: a move up by
\* exactly line + 1 lines slips through to the subtraction
vm_above_first_late(line, line_delta) ==
    line_delta < 0 /\ as_usize(wrap_isize(0 - line_delta)) > line + 1

\* (-line_delta as usize) > line, evaluated only for line_delta < 0
vm_above_first(line, line_delta) ==
    line_delta < 0 /\ as_usize(wrap_isize(0 - line_delta)) > line

\* the target line, and whether computing it left usize / isize
vm_target_line(line, line_delta) ==
    IF line_delta < 0 THEN
        LET n == as_usize(wrap_isize(0 - line_delta))
        IN [v |-> wrap_usize(line - n),
            ovf |-> ~isize_fits(0 - line_delta) \/ ~usize_fits(line - n)]
    ELSE [v |-> saturating_add(line, as_usize(line_delta)), ovf |-> FALSE]

\* vm_at_start recomputing the column at the document's start
vm_at_start_fresh(t, col) == calc_horiz(t, 0)

\* return (0, Some(col)): the move would pass the first line
vm_at_start(t, col) == Outcome(0, Some(col), "none")

\* return (text.len(), Some(col)): the target line is past the last line
vm_at_end(t, col) == Outcome(text_len(t), Some(col), "none")

\* vm_landing recomputing the column on every move
vm_landing_fresh(t, active, new_offset, col) == calc_horiz(t, new_offset)

\* the last five lines: a move that did not move recomputes the column
vm_landing(t, active, new_offset, col) ==
    IF new_offset = active THEN calc_horiz(t, new_offset)
    ELSE Outcome(new_offset, Some(col), "none")

vertical_motion(r, t, line_delta, modify) ==
    LET active == vm_active(r, line_delta, modify)
        col == vm_col(r, t, active)
        line == line_of_offset(t, active)
        above == vm_above_first(line, line_delta)
        target == vm_target_line(line, line_delta)
        n_lines == line_of_offset(t, text_len(t))
        out == IF above THEN vm_at_start(t, col)
               ELSE IF target.v > n_lines THEN vm_at_end(t, col)
               ELSE vm_landing(t, active,
                               line_col_to_offset(t, target.v, col), col)
        ovf == \/ line_delta < 0 /\ ~isize_fits(0 - line_delta)
               \/ ~above /\ target.ovf
    IN [out EXCEPT !.ovf = IF ovf THEN "vertical_motion" ELSE "none"]

\* max(view.scroll_height() as isize - 2, 1) for a viewport of h lines
scroll_height(h) ==
    LET d == as_isize(h) - 2
    IN [v |-> Max2(wrap_isize(d), 1), ovf |-> ~isize_fits(d)]

\* move_Left stepping one grapheme from r.end whatever the region
move_Left_step(r, t, modify) ==
    LET prev == prev_grapheme_offset(t, r.end)
    IN IF is_some(prev) THEN calc_horiz(t, unwrap(prev))
       ELSE Outcome(0, r.horiz, "none")

move_Left(r, t, modify) ==
    IF is_caret(r) \/ modify THEN
        LET prev == prev_grapheme_offset(t, r.end)
        IN IF is_some(prev) THEN calc_horiz(t, unwrap(prev))
           ELSE Outcome(0, r.horiz, "none")
    ELSE calc_horiz(t, region_min(r))

\* move_Right stepping one code unit where no grapheme boundary follows
move_Right_past(r, t, modify) ==
    IF is_caret(r) \/ modify THEN
        LET next == next_grapheme_offset(t, r.end)
        IN IF is_some(next) THEN calc_horiz(t, unwrap(next))
           ELSE Outcome(r.end + 1, r.horiz, "none")
    ELSE calc_horiz(t, region_max(r))

move_Right(r, t, modify) ==
    IF is_caret(r) \/ modify THEN
        LET next == next_grapheme_offset(t, r.end)
        IN IF is_some(next) THEN calc_horiz(t, unwrap(next))
           ELSE Outcome(r.end, r.horiz, "none")
    ELSE calc_horiz(t, region_max(r))

move_LeftWord(r, t) ==
    calc_horiz(t, unwrap_or(prev_boundary(t, r.end), 0))

move_RightWord(r, t) ==
    calc_horiz(t, unwrap_or(next_boundary(t, r.end), text_len(t)))

move_LeftOfLine(r, t) ==
    LET line == line_of_offset(t, r.end)
    IN calc_horiz(t, offset_of_line(t, line))

\* move_RightOfLine without the step back over the line terminator
move_RightOfLine_next(r, t) ==
    LET line == line_of_offset(t, r.end)
        next_line_offset == offset_of_line(t, line + 1)
        offset == IF line < line_of_offset(t, text_len(t))
                  THEN next_line_offset ELSE text_len(t)
    IN calc_horiz(t, offset)

move_RightOfLine(r, t) ==
    LET line == line_of_offset(t, r.end)
        next_line_offset == offset_of_line(t, line + 1)
        prev == prev_grapheme_offset(t, next_line_offset)
        offset == IF line < line_of_offset(t, text_len(t)) /\ is_some(prev)
                  THEN unwrap(prev) ELSE text_len(t)
    IN calc_horiz(t, offset)

move_StartOfParagraph(r, t) ==
    calc_horiz(t, unwrap_or(cursor_prev_line(t, r.end), 0))

\* move_EndOfParagraph without the step back over the line terminator
move_EndOfParagraph_next(r, t) ==
    LET cursor == cursor_next_line(t, r.end)
        offset == IF is_some(cursor.ret) /\ is_line_boundary(t, cursor.pos)
                  THEN unwrap(cursor.ret) ELSE r.end
    IN calc_horiz(t, offset)

move_EndOfParagraph(r, t) ==
    LET cursor == cursor_next_line(t, r.end)
        eol == IF is_some(cursor.ret)
               THEN prev_grapheme_offset(t, unwrap(cursor.ret)) ELSE None
        offset == IF /\ is_some(cursor.ret)
                     /\ is_line_boundary(t, cursor.pos)
                     /\ is_some(eol)
                  THEN unwrap(eol) ELSE r.end
    IN calc_horiz(t, offset)

move_Page(r, t, h, modify, sign) ==
    LET sh == scroll_height(h)
        out == vertical_motion(r, t, sign * sh.v, modify)
    IN IF sh.ovf THEN [out EXCEPT !.ovf = "scroll_height"] ELSE out

region_movement(m, r, t, h, modify) ==
    CASE m = "Left" -> move_Left(r, t, modify)
      [] m = "Right" -> move_Right(r, t, modify)
      [] m = "LeftWord" -> move_LeftWord(r, t)
      [] m = "RightWord" -> move_RightWord(r, t)
      [] m = "LeftOfLine" -> move_LeftOfLine(r, t)
      [] m = "RightOfLine" -> move_RightOfLine(r, t)
      [] m = "Up" -> vertical_motion(r, t, 0 - 1, modify)
      [] m = "Down" -> vertical_motion(r, t, 1, modify)
      [] m = "StartOfParagraph" -> move_StartOfParagraph(r, t)
      [] m = "EndOfParagraph" -> move_EndOfParagraph(r, t)
      [] m = "UpPage" -> move_Page(r, t, h, modify, 0 - 1)
      [] m = "DownPage" -> move_Page(r, t, h, modify, 1)
      [] m = "StartOfDocument" -> calc_horiz(t, 0)
      [] m = "EndOfDocument" -> calc_horiz(t, text_len(t))

\* new_region carrying the source region's affinity over
new_region_affinity(r, out, modify) ==
    SelRegion(IF modify THEN r.start ELSE out.offset,
              out.offset, out.horiz, r.affinity)

\* the region built from the outcome `out` of region_movement on r
new_region(r, out, modify) ==
    SelRegion(IF modify THEN r.start ELSE out.offset,
              out.offset, out.horiz, affinity_default)

\* the loop of selection_movement from region i on: sel is the selection
\* built so far, computed the outcomes region_movement has returned so far
RECURSIVE selection_movement_from(_, _, _, _, _, _, _)
selection_movement_from(i, acc, m, s, t, h, modify) ==
    IF i > Len(s) THEN acc
    ELSE LET out == region_movement(m, s[i], t, h, modify)
         IN selection_movement_from(
                i + 1,
                [sel |-> add_region(acc.sel, new_region(s[i], out, modify)),
                 computed |-> Append(acc.computed, out)],
                m, s, t, h, modify)

selection_movement(m, s, t, h, modify) ==
    selection_movement_from(
        1, [sel |-> selection_new, computed |-> <<>>], m, s, t, h, modify)

-----------------------------------------------------------------------------
(* The editor around selection_movement *)

PageMovements == {"UpPage", "DownPage"}
VerticalMovements == {"Up", "Down", "UpPage", "DownPage"}

\* viewport heights (View::scroll_height) a call is made with: an empty and
\* a small viewport, and the two heights on either side of isize::MAX
Heights == {0, 4, IsizeMax, IsizeMax + 1}

\* only the page movements read the viewport height
HeightsOf(m) == IF m \in PageMovements THEN Heights ELSE {0}

\* the regions a selection starts from: both offsets valid positions of t,
\* no column cached yet (movements fill and keep the cache), either affinity
Regions(t) ==
    {SelRegion(s, e, None, a) :
        s \in {o \in Offsets(t) : is_grapheme_boundary(t, o)},
        e \in {o \in Offsets(t) : is_grapheme_boundary(t, o)},
        a \in Affinities}

NoResult == [sel |-> <<>>, computed |-> <<>>, panicked |-> FALSE]

Init ==
    /\ text \in Texts
    /\ sel \in {selection_new} \cup {<<r>> : r \in Regions(text)}
    /\ call = None
    /\ result = NoResult
    /\ hist = None

Overflows(c) == \E i \in 1..Len(c) : c[i].ovf # "none"

\* One call selection_movement(m, &sel, view, text, modify).  It returns the
\* new selection; where an arithmetic step overflowed, a build with overflow
\* checks aborts instead (panicked) and a build without them returns what
\* the wrapped values give.
Move ==
    /\ call = None
    /\ \E m \in Movements, modify \in BOOLEAN :
       \E h \in HeightsOf(m) :
         LET res == selection_movement(m, sel, text, h, modify)
         IN \E panicked \in IF Overflows(res.computed)
                            THEN BOOLEAN ELSE {FALSE} :
              /\ call' = Some([m |-> m, modify |-> modify, height |-> h])
              /\ result' = [sel |-> IF panicked THEN <<>> ELSE res.sel,
                            computed |-> res.computed,
                            panicked |-> panicked]
    /\ UNCHANGED <<text, sel, hist>>

\* the editor makes the returned selection its current one; hist remembers
\* the caret a non-extending Down has just left
Install ==
    /\ call # None
    /\ ~result.panicked
    /\ sel' = result.sel
    /\ hist' = IF /\ unwrap(call).m = "Down" /\ ~unwrap(call).modify
                  /\ Len(sel) = 1 /\ is_caret(sel[1])
               THEN Some(sel[1]) ELSE None
    /\ call' = None
    /\ result' = NoResult
    /\ UNCHANGED text

Next == Move \/ Install

Spec == Init /\ [][Next]_vars

TypeOK ==
    /\ text \in Texts
    /\ Len(sel) <= 1
    /\ \A i \in 1..Len(sel) :
          /\ sel[i].start \in Offsets(text) /\ sel[i].end \in Offsets(text)
          /\ is_grapheme_boundary(text, sel[i].start)
          /\ is_grapheme_boundary(text, sel[i].end)

-----------------------------------------------------------------------------
(* Properties *)

\* a call on a one-region selection has returned
Returned == call # None /\ ~result.panicked /\ Len(sel) = 1

\* its arguments, the region it read, what region_movement computed for
\* that region and the region it handed to add_region
Arg == unwrap(call)
In == sel[1]
Cmp == result.computed[1]
Out == result.sel[1]

LastLine == line_of_offset(text, Len(text))
LineOf(o) == line_of_offset(text, o)
ColOf(o) == offset_to_line_col(text, o)[2]

\* C1: whatever the movement and modify, the offset region_movement
\* computes, and the start and end of the region selection_movement builds
\* from it, lie in [0, text length].
C1_OffsetInRange ==
    Returned =>
        /\ Cmp.offset \in 0..Len(text)
        /\ Out.end \in 0..Len(text)
        /\ Out.start \in 0..Len(text)

\* Right asked of a caret that already stands at the end of a document
C1_Witness ==
    /\ Returned /\ Arg.m = "Right" /\ is_caret(In)
    /\ Len(text) > 0 /\ In.end = Len(text)
    /\ Out.end = Len(text)

\* C2: the region handed to add_region has end = the computed offset,
\* horiz = the computed column, the default affinity, and start = the
\* source region's start when modify, the computed offset otherwise.
C2_NewRegion ==
    Returned =>
        /\ Out.end = Cmp.offset
        /\ Out.horiz = Cmp.horiz
        /\ Out.affinity = "Downstream"
        /\ Out.start = IF Arg.modify THEN In.start ELSE Cmp.offset
        /\ ~Arg.modify => is_caret(Out)

\* an extending move of a region with the other affinity, whose anchor
\* stays behind
C2_Witness ==
    /\ Returned /\ Arg.modify /\ In.affinity = "Upstream"
    /\ Out.start = In.start /\ Out.start # Out.end
    /\ Out.affinity = "Downstream"

\* C3: without modify, Left on a non-caret region gives a caret at
\* min(start, end) and Right a caret at max(start, end); on a caret, or
\* with modify, Left / Right step one grapheme from region.end (and stay
\* where no grapheme boundary is left).
C3_Collapse ==
    Returned /\ Arg.m \in {"Left", "Right"} =>
        IF ~Arg.modify /\ ~is_caret(In) THEN
            /\ is_caret(Out)
            /\ Out.end = IF Arg.m = "Left" THEN Min2(In.start, In.end)
                         ELSE Max2(In.start, In.end)
        ELSE IF Arg.m = "Left" THEN
            /\ Cmp.offset <= In.end
            /\ is_grapheme_boundary(text, Cmp.offset)
            /\ \A o \in (Cmp.offset + 1)..(In.end - 1) :
                   ~is_grapheme_boundary(text, o)
            /\ Cmp.offset = In.end => In.end = 0
        ELSE
            /\ Cmp.offset >= In.end
            /\ is_grapheme_boundary(text, Cmp.offset)
            /\ \A o \in (In.end + 1)..(Cmp.offset - 1) :
                   ~is_grapheme_boundary(text, o)
            /\ Cmp.offset = In.end => In.end = Len(text)

\* Left without modify on a region whose active point is its right end and
\* whose left end has a grapheme before it
C3_Witness ==
    /\ Returned /\ Arg.m = "Left" /\ ~Arg.modify
    /\ 0 < In.start /\ In.start < In.end
    /\ is_caret(Out) /\ Out.end = In.start

\* a caret on the first line moved up, or on the last line moved down
C4_Case ==
    /\ Returned /\ is_caret(In)
    /\ \/ Arg.m \in {"Up", "UpPage"} /\ LineOf(In.end) = 0
       \/ Arg.m \in {"Down", "DownPage"} /\ LineOf(In.end) = LastLine

\* C4 as claimed: Up / UpPage on a caret on the first line and Down /
\* DownPage on a caret on the last line return the caret's own offset and the
\* column calc_horiz computes for it.
C4_NoOp ==
    C4_Case => Cmp.offset = In.end /\ Cmp.horiz = Some(ColOf(In.end))

\* C4 as the code has it: Up / UpPage on a caret on the first line return
\* offset 0 and Down / DownPage on a caret on the last line return the text
\* length, with the region's cached column when it has one and the column
\* of the caret's offset otherwise.
C4_ClampToDocument ==
    C4_Case =>
        /\ Cmp.offset = IF Arg.m \in {"Up", "UpPage"} THEN 0 ELSE Len(text)
        /\ Cmp.horiz = IF In.horiz # None THEN In.horiz
                       ELSE Some(ColOf(In.end))

\* Up on a caret inside the first line: it lands on offset 0 and keeps the
\* column it came from
C4_Witness ==
    /\ C4_Case /\ Arg.m = "Up" /\ In.end > 0
    /\ Cmp.offset = 0 /\ Cmp.horiz = Some(In.end)

\* Up without modify asked of the caret that a non-extending Down has just
\* produced from the caret hist, which stood on an interior line at the
\* column its cache, if any, recorded
C5_Case ==
    /\ Returned /\ Arg.m = "Up" /\ ~Arg.modify /\ hist # None
    /\ LineOf(unwrap(hist).end) > 0
    /\ LineOf(unwrap(hist).end) < LastLine
    /\ unwrap(hist).horiz \in {None, Some(ColOf(unwrap(hist).end))}

BoundariesAfter(o) == {b \in 1..Len(text) : b > o /\ text[b] = "\n"}

\* EndOfParagraph where a line boundary exists after region.end
C6_Case ==
    Returned /\ Arg.m = "EndOfParagraph" /\ BoundariesAfter(In.end) # {}

\* C6 as claimed: the offset EndOfParagraph returns is then never a
\* position immediately after a line terminator.
C6_NeverOnBoundary ==
    C6_Case => ~(Cmp.offset >= 1 /\ text[Cmp.offset] = "\n")

\* C6 as the code has it: the offset returned is the position just before
\* the first line terminator after region.end, never the boundary behind
\* that terminator; it follows a line terminator itself exactly when
\* region.end stands on an empty line, and then it is region.end.
C6_BeforeTerminator ==
    C6_Case =>
        LET b == CHOOSE b \in BoundariesAfter(In.end) :
                     \A c \in BoundariesAfter(In.end) : b <= c
        IN /\ Cmp.offset = b - 1
           /\ Cmp.offset >= In.end
           /\ (Cmp.offset >= 1 /\ text[Cmp.offset] = "\n")
                  <=> /\ In.end >= 1 /\ text[In.end] = "\n"
                      /\ text[In.end + 1] = "\n"
           /\ (Cmp.offset >= 1 /\ text[Cmp.offset] = "\n")
                  => Cmp.offset = In.end

\* EndOfParagraph on an empty line between two terminators
C6_Witness ==
    /\ C6_Case
    /\ In.end >= 1 /\ text[In.end] = "\n" /\ text[In.end + 1] = "\n"
    /\ Cmp.offset = In.end

\* C7: RightOfLine returns the text length on the last line; on any other
\* line it returns the grapheme boundary just before the start of the next
\* line, which is on region.end's line, not before region.end and not
\* behind that line's terminator.
C7_RightOfLine ==
    Returned /\ Arg.m = "RightOfLine" =>
        IF LineOf(In.end) = LastLine THEN Cmp.offset = Len(text)
        ELSE /\ Cmp.offset >= In.end
             /\ Cmp.offset < Len(text)
             /\ text[Cmp.offset + 1] = "\n"
             /\ \A i \in (In.end + 1)..Cmp.offset : text[i] # "\n"
             /\ is_grapheme_boundary(text, Cmp.offset)
             /\ LineOf(Cmp.offset) = LineOf(In.end)
             /\ LineOf(Cmp.offset + 1) = LineOf(In.end) + 1

\* RightOfLine from the start of a line that is not the last and not empty
C7_Witness ==
    /\ Returned /\ Arg.m = "RightOfLine"
    /\ LineOf(In.end) < LastLine
    /\ Cmp.offset > In.end

\* the end of the text line holding offset o: the position before its
\* terminator, or the end of the text on an unterminated last line
EndOfLine(o) ==
    IF BoundariesAfter(o) = {} THEN Len(text)
    ELSE (CHOOSE b \in BoundariesAfter(o) :
              \A c \in BoundariesAfter(o) : b <= c) - 1

\* C8: EndOfParagraph returns the end of the text line holding region.end,
\* the text length on an unterminated last line.
C8_EndOfLine ==
    Returned /\ Arg.m = "EndOfParagraph" => Cmp.offset = EndOfLine(In.end)

\* a vertical call has computed its outcome (returned or aborted)
C9_Case == call # None /\ Len(sel) = 1 /\ Arg.m \in VerticalMovements

\* the line delta the dispatcher hands to vertical_motion
C9_Delta ==
    CASE Arg.m = "Up" -> 0 - 1
      [] Arg.m = "Down" -> 1
      [] Arg.m = "UpPage" -> 0 - scroll_height(Arg.height).v
      [] Arg.m = "DownPage" -> scroll_height(Arg.height).v

C9_Active ==
    IF Arg.modify THEN In.end
    ELSE IF C9_Delta < 0 THEN Min2(In.start, In.end)
    ELSE Max2(In.start, In.end)

C9_Col == IF In.horiz # None THEN unwrap(In.horiz) ELSE ColOf(C9_Active)

\* C9: for every line delta the dispatcher produces, of magnitude at least
\* one, no step of vertical_motion's line arithmetic leaves its integer
\* type; a move up by more lines than the active point's line gives
\* (0, column unchanged) and a move to a line past the last one gives
\* (text length, column unchanged).
C9_LineArithmetic ==
    C9_Case =>
        /\ C9_Delta # 0 /\ isize_fits(0 - C9_Delta)
        /\ Cmp.ovf # "vertical_motion"
        /\ (C9_Delta < 0 /\ 0 - C9_Delta > LineOf(C9_Active))
               => Cmp.offset = 0 /\ Cmp.horiz = Some(C9_Col)
        /\ (C9_Delta > 0 /\ LineOf(C9_Active) + C9_Delta > LastLine)
               => Cmp.offset = Len(text) /\ Cmp.horiz = Some(C9_Col)

\* a page up from below the first line by far more lines than there are
C9_Witness ==
    /\ C9_Case /\ Arg.m = "UpPage" /\ Arg.height = IsizeMax
    /\ LineOf(C9_Active) > 0
    /\ Cmp.offset = 0

BackwardMovements ==
    {"Left", "LeftWord", "LeftOfLine", "Up", "UpPage", "StartOfParagraph",
     "StartOfDocument"}

\* C10: the backward movements return an offset <= region.end and the
\* forward movements an offset >= region.end.
C10_Direction ==
    Returned =>
        IF Arg.m \in BackwardMovements THEN Cmp.offset <= In.end
        ELSE Cmp.offset >= In.end

\* Down without modify from a region whose active point is its left end
C10_Witness ==
    /\ Returned /\ Arg.m = "Down" /\ ~Arg.modify
    /\ In.end < In.start
    /\ LineOf(In.end) < LineOf(In.start)
    /\ Cmp.offset > In.end

=============================================================================
